---------------------------- MODULE Spec2Model ----------------------------
(***************************************************************************)
(* Model of build_history_csv.py: the retry loop of http_get, the          *)
(* per-item filter of fetch_day_sections, the scorer india_score, the      *)
(* quota selector select_for_day and the day loop of run_month.            *)
(*                                                                         *)
(* Representation.                                                         *)
(*  - A Python str is a sequence of one-character strings.  A description  *)
(*    additionally carries "pad": that many copies of PadChar appended to  *)
(*    its characters, so that texts longer than 2000 and 10000 characters  *)
(*    are in reach.  PadChar occurs in no keyword and no exclude term, so  *)
(*    a substring test on a padded text is decided by its characters.      *)
(*  - A score is kept in units of 1/200: india_score returns               *)
(*    50.0*kw + min(len/200.0, 10.0), the model 10000*kw + min(len, 2000). *)
(*    The scaling is strictly monotone on the values the code produces.    *)
(*  - A ratio is kept in tenths (ind_low = 6 stands for 0.6) and           *)
(*    int(total * ratio) is computed exactly as (total * tenths) \div 10;  *)
(*    the rounding of IEEE doubles is not modelled.                        *)
(***************************************************************************)
EXTENDS Integers, Sequences, FiniteSets, TLC

VARIABLES
    pc,          \* position of the program
    raw,         \* select_for_day: the argument raw (also fetch_day_sections' out)
    min_count,   \* select_for_day: the argument min_count
    max_count,   \* select_for_day: the argument max_count
    ind_low,     \* select_for_day: the argument ind_low, in tenths
    ind_high,    \* select_for_day: the argument ind_high, in tenths
    items,       \* select_for_day: the local items
    selected,    \* select_for_day: the local selected
    result,      \* select_for_day: the returned list
    tries,       \* http_get: the argument tries
    backoff,     \* http_get: the argument backoff
    i,           \* http_get: the loop variable i
    outcomes,    \* http_get: the outcome of each attempt issued so far
    slept,       \* http_get: the argument of each time.sleep call so far
    resp,        \* http_get: the returned value (NotReturned until it returns)
    flags,       \* fetch_day_sections: include_births, include_deaths
    day,         \* run_month: the loop variable day
    per_day      \* run_month: the dict per_day

vars == << pc, raw, min_count, max_count, ind_low, ind_high, items, selected,
           result, tries, backoff, i, outcomes, slept, resp, flags, day, per_day >>

selectVars == << raw, min_count, max_count, ind_low, ind_high, items, selected, result >>
httpVars   == << tries, backoff, i, outcomes, slept, resp >>
monthVars  == << flags, day, per_day >>

----------------------------------------------------------------------------
(* Bounds of the model *)

MaxRaw    == 3      \* longest list of raw records drawn as input
MaxCount  == 2      \* largest min_count / max_count drawn as input
LongPad   == 12000  \* padding of the longest description

(* Constants of the program *)

KeywordBonus  == 10000  \* 50.0, in units of 1/200
LengthCap     == 2000   \* 10.0, in units of 1/200
RegionalScore == 10000  \* the threshold 50.0 of is_india, in units of 1/200
RatioDen      == 10     \* ratios are kept in tenths

----------------------------------------------------------------------------
(* Strings *)

PadChar == "0"

UpperChars == << "A","B","C","D","E","F","G","H","I","J","K","L","M",
                 "N","O","P","Q","R","S","T","U","V","W","X","Y","Z" >>
LowerChars == << "a","b","c","d","e","f","g","h","i","j","k","l","m",
                 "n","o","p","q","r","s","t","u","v","w","x","y","z" >>

\* the lower-case letter of each upper-case one
ToLower ==
    [ c \in { UpperChars[k] : k \in 1..Len(UpperChars) } |->
        LowerChars[CHOOSE k \in 1..Len(UpperChars) : UpperChars[k] = c] ]

\* str.lower() on one character
LowerChar(c) == IF c \in DOMAIN ToLower THEN ToLower[c] ELSE c

\* str.lower()
Lower(s) == [k \in 1..Len(s) |-> LowerChar(s[k])]

\* term in s
Contains(term, s) ==
    \E k \in 1..(Len(s) - Len(term) + 1) :
        \A j \in 1..Len(term) : s[k + j - 1] = term[j]

\* any(term in s for term in terms)
ContainsAny(terms, s) == \E term \in terms : Contains(term, s)

\* s[:n], with Python's meaning of a negative n
Take(s, n) ==
    IF n >= 0 THEN SubSeq(s, 1, IF n < Len(s) THEN n ELSE Len(s))
    ELSE SubSeq(s, 1, IF Len(s) + n > 0 THEN Len(s) + n ELSE 0)

Min(a, b) == IF a < b THEN a ELSE b
Max(a, b) == IF a > b THEN a ELSE b

EXCLUDE_OBSERVANCES ==
    { <<"f","e","s","t","i","v","a","l">>,
      <<"o","b","s","e","r","v","a","n","c","e">>,
      <<"h","o","l","i","d","a","y">>,
      <<"f","e","a","s","t">>,
      <<"d","a","y"," ","o","f">>,
      <<"s","a","i","n","t"," ">>,
      <<"e","i","d">>,
      <<"d","i","w","a","l","i">>,
      <<"h","o","l","i">>,
      <<"j","a","n","m","a","s","h","t","a","m","i">>,
      <<"n","a","v","r","o","z">>,
      <<"c","h","r","i","s","t","m","a","s">>,
      <<"e","a","s","t","e","r">>,
      <<"g","o","o","d"," ","f","r","i","d","a","y">>,
      <<"r","a","m","a","d","a","n">>,
      <<"r","a","m","z","a","n">>,
      <<"g","u","r","p","u","r","a","b">>,
      <<"b","a","i","s","a","k","h","i">>,
      <<"p","o","n","g","a","l">>,
      <<"o","n","a","m">>,
      <<"d","u","r","g","a"," ","p","u","j","a">>,
      <<"g","a","n","e","s","h"," ","c","h","a","t","u","r","t","h","i">>,
      <<"m","a","h","a","s","h","i","v","r","a","t","r","i">>,
      <<"m","a","h","a","v","i","r"," ","j","a","y","a","n","t","i">>,
      <<"b","u","d","d","h","a"," ","p","u","r","n","i","m","a">>,
      <<"m","a","h","o","t","s","a","v">> }

INDIA_KEYWORDS ==
    { <<"i","n","d","i","a">>,
      <<"i","n","d","i","a","n">>,
      <<"b","h","a","r","a","t">>,
      <<"d","e","l","h","i">>,
      <<"m","u","m","b","a","i">>,
      <<"b","o","m","b","a","y">>,
      <<"c","a","l","c","u","t","t","a">>,
      <<"k","o","l","k","a","t","a">>,
      <<"m","a","d","r","a","s">>,
      <<"c","h","e","n","n","a","i">>,
      <<"b","e","n","g","a","l">>,
      <<"p","u","n","j","a","b">>,
      <<"a","s","s","a","m">>,
      <<"h","y","d","e","r","a","b","a","d">>,
      <<"m","y","s","o","r","e">>,
      <<"t","r","a","v","a","n","c","o","r","e">>,
      <<"a","w","a","d","h">>,
      <<"g","u","j","a","r","a","t">>,
      <<"m","a","h","a","r","a","s","h","t","r","a">>,
      <<"i","s","r","o">>,
      <<"d","r","d","o">>,
      <<"i","n","c","o","s","p","a","r">>,
      <<"i","i","t">>,
      <<"i","i","s","c">>,
      <<"i","n","c"," ">>,
      <<"c","o","n","g","r","e","s","s">>,
      <<"b","j","p">>,
      <<"n","e","h","r","u">>,
      <<"g","a","n","d","h","i">>,
      <<"a","m","b","e","d","k","a","r">>,
      <<"b","h","a","g","a","t"," ","s","i","n","g","h">>,
      <<"s","u","b","h","a","s">>,
      <<"t","i","l","a","k">>,
      <<"p","a","t","e","l">>,
      <<"s","w","a","r","a","j">>,
      <<"s","a","t","y","a","g","r","a","h","a">>,
      <<"q","u","i","t"," ","i","n","d","i","a">>,
      <<"s","w","a","d","e","s","h","i">>,
      <<"d","a","n","d","i">>,
      <<"i","n","a">>,
      <<"a","z","a","d"," ","h","i","n","d">>,
      <<"h","o","c","k","e","y">>,
      <<"c","r","i","c","k","e","t">> }

----------------------------------------------------------------------------
(* india_score *)

\* f"{r['title']} {r['desc']}": the characters, and the padding of desc
ScoreText(r) == [s |-> r.title \o <<" ">> \o r.desc.s, pad |-> r.desc.pad]

TextLen(t) == Len(t.s) + t.pad

\* any(k in low for k in INDIA_KEYWORDS)
HasIndiaKeyword(t) ==
    LET low == Lower(t.s)
    IN  ContainsAny(INDIA_KEYWORDS, low)

\* mutant: the length contribution without its cap
LengthScore_NoCap(t) == TextLen(t)

\* min(len(text) / 200.0, 10.0)
LengthScore(t) == Min(TextLen(t), LengthCap)

india_score(t) ==
    (IF HasIndiaKeyword(t) THEN KeywordBonus ELSE 0) + LengthScore(t)

\* s >= 50.0
IsIndiaScore(s) == s >= RegionalScore

----------------------------------------------------------------------------
(* select_for_day *)

\* the loop at lines 120-128: seen, items
RECURSIVE DedupeFrom(_, _, _)
DedupeFrom(rs, seen, acc) ==
    IF rs = << >> THEN acc
    ELSE LET r   == Head(rs)
             key == << r.title, r.desc >>
         IN  IF key \in seen
             THEN DedupeFrom(Tail(rs), seen, acc)
             ELSE LET s == india_score(ScoreText(r))
                  IN  DedupeFrom(Tail(rs), seen \cup {key},
                          Append(acc, [title |-> r.title, desc |-> r.desc, src |-> r.src,
                                       score |-> s, is_india |-> IsIndiaScore(s)]))

\* mutant: every record is kept, seen is never consulted
Dedupe_None(rs) ==
    [ k \in 1..Len(rs) |->
        LET s == india_score(ScoreText(rs[k]))
        IN  [title |-> rs[k].title, desc |-> rs[k].desc, src |-> rs[k].src,
             score |-> s, is_india |-> IsIndiaScore(s)] ]

Dedupe(rs) == DedupeFrom(rs, {}, << >>)

\* the sort key (is_india, score): a before b under reverse=True
KeyGreater(a, b) ==
    \/ a.is_india /\ ~b.is_india
    \/ a.is_india = b.is_india /\ a.score > b.score

\* mutant: an unstable sort, x placed before the elements of equal key
RECURSIVE InsertDesc_TiesFirst(_, _)
InsertDesc_TiesFirst(sorted, x) ==
    IF sorted = << >> THEN << x >>
    ELSE IF ~KeyGreater(Head(sorted), x) THEN << x >> \o sorted
         ELSE << Head(sorted) >> \o InsertDesc_TiesFirst(Tail(sorted), x)

\* x placed after every element whose key is not smaller (list.sort is stable,
\* also under reverse=True)
RECURSIVE InsertDesc(_, _)
InsertDesc(sorted, x) ==
    IF sorted = << >> THEN << x >>
    ELSE IF KeyGreater(x, Head(sorted)) THEN << x >> \o sorted
         ELSE << Head(sorted) >> \o InsertDesc(Tail(sorted), x)

\* list.sort(key=lambda x: (x["is_india"], x["score"]), reverse=True)
RECURSIVE SortDesc(_)
SortDesc(s) ==
    IF s = << >> THEN << >>
    ELSE InsertDesc(SortDesc(SubSeq(s, 1, Len(s) - 1)), s[Len(s)])

\* total = max(min_count, min(max_count, len(items)))
Total(its, mn, mx) == Max(mn, Min(mx, Len(its)))

\* int(total * ratio)
Target(total, ratio) == (total * ratio) \div RatioDen

IndiaItems(its)  == SelectSeq(its, LAMBDA x : x.is_india)
GlobalItems(its) == SelectSeq(its, LAMBDA x : ~x.is_india)

\* mutant: the global entries are counted
IndCount_CountsGlobal(sel) == Len(SelectSeq(sel, LAMBDA x : ~x.is_india))

\* sum(1 for i in selected if i["is_india"])
IndCount(sel) == Len(SelectSeq(sel, LAMBDA x : x.is_india))

\* mutant: the regional records are cut at total, not at the high target
GreedyFill_NoHighCap(its, total, india_target_high) ==
    LET first == Take(IndiaItems(its), total)
        need  == total - Len(first)
    IN  IF need > 0 THEN first \o Take(GlobalItems(its), need) ELSE first

\* mutant: need is taken from the high target, not from what was selected
GreedyFill_NeedFromTarget(its, total, india_target_high) ==
    LET first == Take(IndiaItems(its), india_target_high)
        need  == total - india_target_high
    IN  IF need > 0 THEN first \o Take(GlobalItems(its), need) ELSE first

\* mutant: the backfill stops one global record early
GreedyFill_ShortBackfill(its, total, india_target_high) ==
    LET first == Take(IndiaItems(its), india_target_high)
        need  == total - Len(first)
    IN  IF need > 0 THEN first \o Take(GlobalItems(its), need - 1) ELSE first

\* lines 138-142
GreedyFill(its, total, india_target_high) ==
    LET first == Take(IndiaItems(its), india_target_high)
        need  == total - Len(first)
    IN  IF need > 0 THEN first \o Take(GlobalItems(its), need) ELSE first

\* the guard at line 146
RepairGuard(sel, its, india_target_low) ==
    IndCount(sel) < india_target_low /\ Len(IndiaItems(its)) > IndCount(sel)

\* the while loop at lines 150-155 (gi and src are 0-based, as in the code)
RECURSIVE RepairLoop(_, _, _, _, _)
RepairLoop(sel, replace, gi, src, india_items) ==
    IF replace > 0 /\ gi >= 0 /\ src < Len(india_items)
    THEN IF ~sel[gi + 1].is_india
         THEN RepairLoop([sel EXCEPT ![gi + 1] = india_items[src + 1]],
                         replace - 1, gi - 1, src + 1, india_items)
         ELSE RepairLoop(sel, replace, gi - 1, src, india_items)
    ELSE sel

\* lines 145-155
Repair(sel, its, india_target_low) ==
    IF RepairGuard(sel, its, india_target_low)
    THEN RepairLoop(sel, india_target_low - IndCount(sel), Len(sel) - 1,
                    IndCount(sel), IndiaItems(its))
    ELSE sel

\* mutant: the final sort is left out
FinalOrder_NoSort(sel, total) == Take(sel, total)

\* lines 158-159
FinalOrder(sel, total) == Take(SortDesc(sel), total)

\* the whole function
select_for_day(rs, mn, mx, lo, hi) ==
    IF rs = << >> THEN << >>
    ELSE LET its   == SortDesc(Dedupe(rs))
             total == Total(its, mn, mx)
         IN  FinalOrder(Repair(GreedyFill(its, total, Target(total, hi)),
                               its, Target(total, lo)), total)

----------------------------------------------------------------------------
(* Inputs of select_for_day *)

Rec(title, desc, pad, src) ==
    [title |-> title, desc |-> [s |-> desc, pad |-> pad], src |-> src]

\* a regional record whose keyword only lower-casing finds; a later duplicate of
\* it with another source; a record of the same score that is regional only by
\* the blank joining title and desc ("inc "); a global record longer than any
\* cap; a short global record
RecordPool ==
    { Rec(<<"I","n","d","i","a">>, <<"x">>,         0, "u1"),
      Rec(<<"I","n","d","i","a">>, <<"x">>,         0, "u2"),
      Rec(<<"I","n","c">>,         <<"x","y","z">>, 0, "u3"),
      Rec(<<"R","o","m","e">>,     <<"x">>,         LongPad, "u4"),
      Rec(<<"O","s","l","o">>,     <<"x">>,         0, "u5") }

RECURSIVE SeqsUpTo(_, _)
SeqsUpTo(S, n) ==
    IF n = 0 THEN { << >> }
    ELSE LET shorter == SeqsUpTo(S, n - 1)
         IN  shorter \cup { Append(q, x) : q \in shorter, x \in S }

RawInputs == SeqsUpTo(RecordPool, MaxRaw)

Counts == 0..MaxCount

\* 0, 0.7 and 1.0
Ratios == {0, 7, 10}

\* three regional records and five global ones, all of different scores, not in
\* score order
ScenarioRaw ==
    << Rec(<<"R","o","m","e">>,     <<"x">>, 1000, "s1"),
       Rec(<<"I","n","d","i","a">>, <<"x">>, 600,  "s2"),
       Rec(<<"R","o","m","e">>,     <<"x">>, 1600, "s3"),
       Rec(<<"R","o","m","e">>,     <<"x">>, 800,  "s4"),
       Rec(<<"I","n","d","i","a">>, <<"x">>, 1200, "s5"),
       Rec(<<"R","o","m","e">>,     <<"x">>, 1400, "s6"),
       Rec(<<"I","n","d","i","a">>, <<"x">>, 200,  "s7"),
       Rec(<<"R","o","m","e">>,     <<"x">>, 1200, "s8") >>

\* what http_get has returned: nothing yet, None, or the response of status 200
\* with the page it carries
NotReturned == [kind |-> "not_returned", page |-> << >>]
None        == [kind |-> "None", page |-> << >>]
Response(p) == [kind |-> "response", page |-> p]

SelectIdle ==
    /\ items = << >>
    /\ selected = << >>
    /\ result = << >>

HttpIdle ==
    /\ tries = 0
    /\ backoff = 0
    /\ i = 0
    /\ outcomes = << >>
    /\ slept = << >>
    /\ resp = NotReturned

MonthIdle ==
    /\ flags = [births |-> FALSE, deaths |-> FALSE]
    /\ day = 0
    /\ per_day = << >>

----------------------------------------------------------------------------
(* select_for_day, step by step *)

\* lines 117-118
ReturnEmpty ==
    /\ pc = "select"
    /\ raw = << >>
    /\ result' = << >>
    /\ pc' = "selected"
    /\ UNCHANGED << raw, min_count, max_count, ind_low, ind_high, items, selected >>
    /\ UNCHANGED << httpVars, monthVars >>

\* lines 119-128
DedupeStep ==
    /\ pc = "select"
    /\ raw # << >>
    /\ items' = Dedupe(raw)
    /\ pc' = "sort"
    /\ UNCHANGED << raw, min_count, max_count, ind_low, ind_high, selected, result >>
    /\ UNCHANGED << httpVars, monthVars >>

\* line 130
SortStep ==
    /\ pc = "sort"
    /\ items' = SortDesc(items)
    /\ pc' = "fill"
    /\ UNCHANGED << raw, min_count, max_count, ind_low, ind_high, selected, result >>
    /\ UNCHANGED << httpVars, monthVars >>

\* lines 131-142
FillStep ==
    /\ pc = "fill"
    /\ LET total == Total(items, min_count, max_count)
       IN  selected' = GreedyFill(items, total, Target(total, ind_high))
    /\ pc' = "repair"
    /\ UNCHANGED << raw, min_count, max_count, ind_low, ind_high, items, result >>
    /\ UNCHANGED << httpVars, monthVars >>

\* lines 144-155
RepairStep ==
    /\ pc = "repair"
    /\ LET total == Total(items, min_count, max_count)
       IN  selected' = Repair(selected, items, Target(total, ind_low))
    /\ pc' = "final"
    /\ UNCHANGED << raw, min_count, max_count, ind_low, ind_high, items, result >>
    /\ UNCHANGED << httpVars, monthVars >>

\* lines 157-159
FinalStep ==
    /\ pc = "final"
    /\ selected' = SortDesc(selected)
    /\ result' = FinalOrder(selected, Total(items, min_count, max_count))
    /\ pc' = "selected"
    /\ UNCHANGED << raw, min_count, max_count, ind_low, ind_high, items >>
    /\ UNCHANGED << httpVars, monthVars >>

SelectNext ==
    \/ ReturnEmpty
    \/ DedupeStep
    \/ SortStep
    \/ FillStep
    \/ RepairStep
    \/ FinalStep

\* select_for_day called on any list of raw records with any query
Init ==
    /\ pc = "select"
    /\ \/ /\ raw \in RawInputs
          /\ min_count \in Counts
          /\ max_count \in Counts
          /\ ind_low \in Ratios
          /\ ind_high \in Ratios
       \/ /\ raw = ScenarioRaw
          /\ min_count = 5
          /\ max_count = 5
          /\ ind_low \in {6, 7}
          /\ ind_high \in {6, 7}
    /\ SelectIdle
    /\ HttpIdle
    /\ MonthIdle

Next == SelectNext

Spec == Init /\ [][Next]_vars

----------------------------------------------------------------------------
(* http_get *)

\* the default arguments of http_get (line 45), which fetch_day_sections uses
DefaultTries   == 3
DefaultBackoff == 1

\* what one attempt can do: a response of status 200, a response of another
\* status, an exception
Ok200       == "200"
OtherStatus == "status"
Raised      == "exception"

\* mutant: the sleep is taken from the 0-based loop variable
SleepTime_ZeroBased(b, n) == b * n

\* backoff * (i + 1)
SleepTime(b, n) == b * (n + 1)

----------------------------------------------------------------------------
(* fetch_day_sections *)

\* characters that are written as tokens
EnDash   == "en-dash"
LineFeed == "line-feed"

Digits == { "0","1","2","3","4","5","6","7","8","9" }
Spaces == { " ", LineFeed }

\* " ".join(s.split()): for a text of blanks only, the empty string
RECURSIVE NormalizeFrom(_, _, _)
NormalizeFrom(s, acc, pending) ==
    IF s = << >> THEN acc
    ELSE IF Head(s) \in Spaces
         THEN NormalizeFrom(Tail(s), acc, acc # << >>)
         ELSE NormalizeFrom(Tail(s),
                            (IF pending THEN Append(acc, " ") ELSE acc) \o << Head(s) >>,
                            FALSE)

Normalize(s) == NormalizeFrom(s, << >>, FALSE)

\* the length of the longest prefix of digits
DigitPrefixLen(s) ==
    Cardinality({ n \in 1..Len(s) : \A j \in 1..n : s[j] \in Digits })

\* the first position from p on that holds no blank (Len(s) + 1 if none)
SkipSpaces(s, p) ==
    CHOOSE q \in p..(Len(s) + 1) :
        /\ \A j \in p..(q - 1) : s[j] \in Spaces
        /\ q <= Len(s) => s[q] \notin Spaces

\* the position of the dash when ^(\d{1,4})\s*[–-]\s*(.*)$ matches, else 0
DashPosition(txt) ==
    LET d == DigitPrefixLen(txt)
        p == SkipSpaces(txt, d + 1)
    IN  IF d >= 1 /\ d <= 4 /\ p <= Len(txt) /\ txt[p] \in { EnDash, "-" }
        THEN p ELSE 0

\* desc = m.group(2) if m else txt
DescOf(txt) ==
    LET p == DashPosition(txt)
    IN  IF p = 0 THEN txt ELSE SubSeq(txt, SkipSpaces(txt, p + 1), Len(txt))

TitleMax == 120

\* desc.split(".")[0][:120]
TitleFromDesc(desc) ==
    LET dots == { p \in 1..Len(desc) : desc[p] = "." }
        stop == IF dots = {} THEN Len(desc)
                ELSE (CHOOSE p \in dots : \A q \in dots : p <= q) - 1
    IN  Take(SubSeq(desc, 1, stop), TitleMax)

\* li.find("a") found nothing
NoAnchor == [present |-> FALSE, has_href |-> FALSE, href |-> << >>, text |-> << >>]

\* BASE_URL.format(month=month, day=day)
Url(d) == << "https://en.wikipedia.org/wiki/", "August_", d >>

\* lines 88-95: href
HrefOf(li, url) ==
    IF li.a.present /\ li.a.has_href
    THEN IF Head(li.a.href) = "/" THEN << "https://en.wikipedia.org" >> \o li.a.href
         ELSE li.a.href
    ELSE url

\* lines 90-97: title
TitleOf(li, desc) ==
    LET t == IF li.a.present /\ li.a.has_href THEN li.a.text ELSE << >>
    IN  IF t = << >> THEN TitleFromDesc(desc) ELSE t

\* mutant: the exclude terms are looked for in the text as written
IsObservance_CaseSensitive(txt) == ContainsAny(EXCLUDE_OBSERVANCES, txt)

\* line 82
IsObservance(txt) ==
    LET low == Lower(txt)
    IN  ContainsAny(EXCLUDE_OBSERVANCES, low)

\* lines 78-98: what one <li> appends to out
ItemRecords(li, url) ==
    LET txt == Normalize(li.text)
    IN  IF txt = << >> THEN << >>
        ELSE IF IsObservance(txt) THEN << >>
        ELSE LET desc == DescOf(txt)
             IN  << [title |-> TitleOf(li, desc),
                     desc  |-> [s |-> desc, pad |-> 0],
                     src   |-> HrefOf(li, url)] >>

\* lines 76-103: the items of the <ul> elements that follow a heading
RECURSIVE ListRecords(_, _)
ListRecords(lis, url) ==
    IF lis = << >> THEN << >>
    ELSE ItemRecords(Head(lis), url) \o ListRecords(Tail(lis), url)

SectionNames == { <<"e","v","e","n","t","s">>, <<"b","i","r","t","h","s">>, <<"d","e","a","t","h","s">> }

\* the dict flags of line 65
FlagOf(name, fl) ==
    IF name = <<"e","v","e","n","t","s">> THEN TRUE
    ELSE IF name = <<"b","i","r","t","h","s">> THEN fl.births
    ELSE fl.deaths

\* lines 69-73: the heading has a headline span and its section is wanted
SectionWanted(sec, fl) ==
    /\ sec.span
    /\ Lower(sec.headline) \in SectionNames
    /\ FlagOf(Lower(sec.headline), fl)

\* lines 63-106 of fetch_day_sections, for the page of a response
RECURSIVE PageRecords(_, _, _)
PageRecords(page, fl, url) ==
    IF page = << >> THEN << >>
    ELSE (IF SectionWanted(Head(page), fl) THEN ListRecords(Head(page).lis, url) ELSE << >>)
            \o PageRecords(Tail(page), fl, url)

\* lines 60-106: out, for what http_get returned
fetch_day_sections(r, fl, url) == IF r = None THEN << >> ELSE PageRecords(r.page, fl, url)

----------------------------------------------------------------------------
(* Pages: what the parser reports of a page, a sequence of headings, each with
   whether it holds a span of class mw-headline, the span's text, and the <li>
   of the <ul> elements that follow it; an <li> with its text
   (get_text(" ", strip=True)) and its first <a> *)

Anchor(href, text) == [present |-> TRUE, has_href |-> TRUE, href |-> href, text |-> text]
AnchorNoHref(text) == [present |-> TRUE, has_href |-> FALSE, href |-> << >>, text |-> text]
Li(text, a)        == [text |-> text, a |-> a]
Sec(headline, lis) == [span |-> TRUE, headline |-> headline, lis |-> lis]
SecNoSpan(lis)     == [span |-> FALSE, headline |-> << >>, lis |-> lis]

li_india  == Li(<<"1","9","4","7"," ","-"," ","I","n","d","i","a"," ","w","o","n">>, Anchor(<< "/", "wiki/India" >>, <<"I","n","d","i","a">>))
li_diwali == Li(<<"1","9","5","0"," ","-"," ","D","i","w","a","l","i"," ","h","e","l","d">>, NoAnchor)
li_eid    == Li(<<"E","I","D"," "," ","f","a","i","r">>, Anchor(<< "https://example.org/", "eid" >>, <<"E","I","D">>))
li_monday == Li(<<"1","9","4","4"," ","-"," ","o","f"," ","M","o","n","d","a","y">>, NoAnchor)
li_saint  == Li(<<"1","8","0","3"," ",EnDash," ","S","a","i","n","t",","," ","x">>, Anchor(<< "/", "wiki/Saint" >>, <<"S","a","i","n","t">>))
li_rome   == Li(<<"7","5","3"," ","-","R","o","m","e","."," ","F","o","u","n","d","e","d">>, NoAnchor)
li_nohref == Li(<<"1","2","3","4","5"," ","-",LineFeed,"x">>, AnchorNoHref(<<"x">>))
li_blank  == Li(<< >>, NoAnchor)

Pages ==
    { << Sec(<<"E","v","e","n","t","s">>, << li_india, li_diwali, li_rome >>),
         Sec(<<"B","i","r","t","h","s">>, << li_india, li_saint >>) >>,
      << Sec(<<"E","v","e","n","t","s">>, << li_monday, li_eid, li_blank >>),
         Sec(<<"D","e","a","t","h","s">>, << li_nohref >>) >>,
      << SecNoSpan(<< li_rome >>),
         Sec(<<"H","o","l","i","d","a","y","s"," ","a","n","d"," ","o","b","s","e","r","v","a","n","c","e","s">>, << li_diwali >>) >>,
      << Sec(<<"E","v","e","n","t","s">>, << li_diwali >>) >> }

----------------------------------------------------------------------------
(* http_get, step by step *)

\* lines 46-50: an attempt that returns status 200
HttpAttemptOk ==
    /\ pc = "http"
    /\ i < tries
    /\ outcomes' = Append(outcomes, Ok200)
    /\ resp' \in { Response(p) : p \in Pages }
    /\ pc' = "http_returned"
    /\ UNCHANGED << tries, backoff, i, slept >>
    /\ UNCHANGED << selectVars, monthVars >>

\* lines 46-53: an attempt that returns another status or raises
HttpAttemptFail ==
    /\ pc = "http"
    /\ i < tries
    /\ \E o \in { OtherStatus, Raised } : outcomes' = Append(outcomes, o)
    /\ pc' = "http_sleep"
    /\ UNCHANGED << tries, backoff, i, slept, resp >>
    /\ UNCHANGED << selectVars, monthVars >>

\* line 54, and the loop's step
HttpSleep ==
    /\ pc = "http_sleep"
    /\ slept' = Append(slept, SleepTime(backoff, i))
    /\ i' = i + 1
    /\ pc' = "http"
    /\ UNCHANGED << tries, backoff, outcomes, resp >>
    /\ UNCHANGED << selectVars, monthVars >>

\* line 55
HttpReturnNone ==
    /\ pc = "http"
    /\ i >= tries
    /\ resp' = None
    /\ pc' = "http_returned"
    /\ UNCHANGED << tries, backoff, i, outcomes, slept >>
    /\ UNCHANGED << selectVars, monthVars >>

HttpNext ==
    \/ HttpAttemptOk
    \/ HttpAttemptFail
    \/ HttpSleep
    \/ HttpReturnNone

MaxTries   == 3   \* largest tries drawn as input
MaxBackoff == 2   \* largest backoff drawn as input

\* http_get called with any tries and backoff
InitHttp ==
    /\ pc = "http"
    /\ tries \in 0..MaxTries
    /\ backoff \in 1..MaxBackoff
    /\ i = 0
    /\ outcomes = << >>
    /\ slept = << >>
    /\ resp = NotReturned
    /\ raw = << >>
    /\ min_count = 0 /\ max_count = 0 /\ ind_low = 0 /\ ind_high = 0
    /\ SelectIdle
    /\ MonthIdle

SpecHttp == InitHttp /\ [][HttpNext]_vars

----------------------------------------------------------------------------
(* run_month: the loop over the days *)

MaxDays == 2   \* the days of the month that are run

\* lines 182-183 and 59-60: the next day's page is requested
BeginDay ==
    /\ pc = "day"
    /\ day <= MaxDays
    /\ tries' = DefaultTries
    /\ backoff' = DefaultBackoff
    /\ i' = 0
    /\ outcomes' = << >>
    /\ slept' = << >>
    /\ resp' = NotReturned
    /\ pc' = "http"
    /\ UNCHANGED << selectVars, monthVars >>

\* lines 61-106: fetch_day_sections returns out
ParseStep ==
    /\ pc = "http_returned"
    /\ raw' = fetch_day_sections(resp, flags, Url(day))
    /\ pc' = "fetched"
    /\ UNCHANGED << min_count, max_count, ind_low, ind_high, items, selected, result >>
    /\ UNCHANGED << httpVars, monthVars >>

\* lines 184-186
SkipDay ==
    /\ pc = "fetched"
    /\ raw = << >>
    /\ day' = day + 1
    /\ pc' = "day"
    /\ UNCHANGED << flags, per_day >>
    /\ UNCHANGED << selectVars, httpVars >>

\* line 187: select_for_day is called
CallSelect ==
    /\ pc = "fetched"
    /\ raw # << >>
    /\ items' = << >>
    /\ selected' = << >>
    /\ result' = << >>
    /\ pc' = "select"
    /\ UNCHANGED << raw, min_count, max_count, ind_low, ind_high >>
    /\ UNCHANGED << httpVars, monthVars >>

\* lines 188-189
StoreDay ==
    /\ pc = "selected"
    /\ per_day' = (day :> result) @@ per_day
    /\ day' = day + 1
    /\ pc' = "day"
    /\ UNCHANGED flags
    /\ UNCHANGED << selectVars, httpVars >>

\* line 190: save_csv is called (the file it writes is not modelled)
SaveStep ==
    /\ pc = "day"
    /\ day > MaxDays
    /\ pc' = "saved"
    /\ UNCHANGED << selectVars, httpVars, monthVars >>

MonthNext ==
    \/ BeginDay
    \/ HttpNext
    \/ ParseStep
    \/ SkipDay
    \/ CallSelect
    \/ DedupeStep
    \/ SortStep
    \/ FillStep
    \/ RepairStep
    \/ FinalStep
    \/ StoreDay
    \/ SaveStep

\* run_month after line 181
InitMonth ==
    /\ pc = "day"
    /\ day = 1
    /\ per_day = << >>
    /\ flags \in [births : BOOLEAN, deaths : BOOLEAN]
    /\ min_count \in { 0, MaxCount }
    /\ max_count = MaxCount
    /\ ind_low = 6
    /\ ind_high \in { 7, 10 }
    /\ raw = << >>
    /\ SelectIdle
    /\ HttpIdle

SpecMonth == InitMonth /\ [][MonthNext]_vars

----------------------------------------------------------------------------
(* What the claims speak of, stated from the input alone *)

ValidQuery ==
    /\ 0 <= min_count /\ min_count <= max_count
    /\ 0 <= ind_low /\ ind_low <= ind_high /\ ind_high <= RatioDen

KeyOf(r) == << r.title, r.desc >>

\* the positions of raw holding the first record of their (title, desc) pair
FirstPositions == { p \in DOMAIN raw : \A q \in 1..(p - 1) : KeyOf(raw[q]) # KeyOf(raw[p]) }

\* every record that select_for_day is given under Spec
InputRecords == RecordPool \cup { ScenarioRaw[k] : k \in DOMAIN ScenarioRaw }

\* the lower-cased title, blank, description contains a regional keyword
TextHasKeyword(r) ==
    LET low == Lower(r.title \o <<" ">> \o r.desc.s)
    IN  \E kw \in INDIA_KEYWORDS : Contains(kw, low)

\* TextHasKeyword and india_score, tabulated over the input records
RegionalKeys == { key : key \in { KeyOf(r) : r \in { x \in InputRecords : TextHasKeyword(x) } } }
ScoreTable   == { << KeyOf(r), india_score(ScoreText(r)) >> : r \in InputRecords }

RefHasKeyword(r) == KeyOf(r) \in RegionalKeys

RefScore(r) == (CHOOSE e \in ScoreTable : e[1] = KeyOf(r))[2]

RegionalPositions == { p \in FirstPositions : RefHasKeyword(raw[p]) }
GlobalPositions   == { p \in FirstPositions : ~RefHasKeyword(raw[p]) }

Available == Cardinality(FirstPositions)
NRegional == Cardinality(RegionalPositions)
NGlobal   == Cardinality(GlobalPositions)

RefTotal == Max(min_count, Min(max_count, Available))
RefLow   == (RefTotal * ind_low) \div RatioDen
RefHigh  == (RefTotal * ind_high) \div RatioDen

RegionalIn(sel) == Cardinality({ p \in DOMAIN sel : sel[p].is_india })

\* the positions P of raw in descending score order, ties in input order
RefOrder(P) ==
    [ n \in 1..Cardinality(P) |->
        CHOOSE p \in P :
            Cardinality({ q \in P : \/ RefScore(raw[q]) > RefScore(raw[p])
                                    \/ RefScore(raw[q]) = RefScore(raw[p]) /\ q < p }) = n - 1 ]

RefEntry(p) ==
    [title |-> raw[p].title, desc |-> raw[p].desc, src |-> raw[p].src,
     score |-> RefScore(raw[p]), is_india |-> RefHasKeyword(raw[p])]

RefEntries(P, n) == [ m \in 1..n |-> RefEntry(RefOrder(P)[m]) ]

\* raw without the later records of an already seen (title, desc) pair
RefDeduped == [ n \in 1..Available |->
                  raw[CHOOSE p \in FirstPositions :
                        Cardinality({ q \in FirstPositions : q < p }) = n - 1] ]

Returned == pc = "selected"

----------------------------------------------------------------------------
(* Claims about select_for_day and india_score, under Spec *)

\* C1: under a valid query, when at least floor(total*low) distinct regional
\* records exist, the number of regional records returned lies between
\* floor(total*low) and floor(total*high).
C1_RatioBound ==
    (Returned /\ ValidQuery /\ NRegional >= RefLow)
        => /\ RegionalIn(result) >= RefLow
           /\ RegionalIn(result) <= RefHigh

\* C1 witness: a returned selection whose low target is positive and met while
\* more regional records existed than the high target admits.
C1_Witness ==
    /\ Returned /\ ValidQuery
    /\ RefLow >= 1 /\ NRegional > RefHigh /\ NGlobal >= 1
    /\ RegionalIn(result) = RefHigh

\* C2 as stated: under a valid query the returned list has at least
\* min(minCount, available) and at most maxCount records.
C2_Original ==
    (Returned /\ ValidQuery)
        => /\ Len(result) >= Min(min_count, Available)
           /\ Len(result) <= max_count

\* the records the fill can use: regional ones up to the high target, and all
\* global ones
Usable == Min(NRegional, RefHigh) + NGlobal

\* C2 amended: the returned list has at most maxCount records and at least
\* min(minCount, usable) of them, usable counting the regional records only up
\* to floor(total*high); with fewer than minCount usable it holds exactly those.
C2_LengthBound ==
    (Returned /\ ValidQuery)
        => /\ Len(result) <= max_count
           /\ Len(result) >= Min(min_count, Usable)
           /\ (Usable < min_count => Len(result) = Usable)

\* C2 witness: records enough for minCount exist, all regional, and the high
\* target keeps the returned list shorter than minCount.
C2_Witness ==
    /\ Returned /\ ValidQuery
    /\ Available >= min_count /\ NGlobal = 0
    /\ Len(result) < min_count
    /\ Len(result) = Usable

\* C3: under a valid query the returned list is the first
\* k = min(R, floor(total*high)) regional records in descending score order
\* followed by the first min(G, total - k) global ones, ties in input order.
C3_GreedyResult ==
    (Returned /\ ValidQuery)
        => LET k == Min(NRegional, RefHigh)
           IN  result = RefEntries(RegionalPositions, k)
                          \o RefEntries(GlobalPositions, Min(NGlobal, RefTotal - k))

\* C3 witness: the scenario of three regional and five global records, all of
\* different scores, with {min 5, max 5, low 0.6, high 0.7}: the three regional
\* records and the two best global ones, in score order.
C3_Witness ==
    /\ Returned /\ raw = ScenarioRaw
    /\ min_count = 5 /\ max_count = 5 /\ ind_low = 6 /\ ind_high = 7
    /\ [ n \in 1..Len(result) |-> result[n].src ] = << "s5", "s2", "s7", "s3", "s6" >>

\* C4: under a valid query, with no regional record in the input the returned
\* list holds global records only, exactly min(total, G) of them.
C4_GracefulShortage ==
    (Returned /\ ValidQuery /\ NRegional = 0)
        => /\ \A p \in DOMAIN result : ~result[p].is_india /\ ~RefHasKeyword(result[p])
           /\ Len(result) = Min(RefTotal, NGlobal)

\* C4 witness: no regional record, more global ones than total.
C4_Witness ==
    /\ Returned /\ ValidQuery
    /\ NRegional = 0 /\ NGlobal > RefTotal /\ RefTotal >= 1
    /\ Len(result) = RefTotal

\* C5: in the returned list no global record stands before a regional one, and
\* within each class scores do not increase with the position.
C5_Ordering ==
    Returned
        => \A p, q \in DOMAIN result :
              p < q => /\ ~(~result[p].is_india /\ result[q].is_india)
                       /\ (result[p].is_india = result[q].is_india
                              => result[p].score >= result[q].score)

\* C5 witness: the repair step put a regional record behind a global one (more
\* regional records returned than the high target admits), and the returned
\* list holds both classes.
C5_Witness ==
    /\ Returned
    /\ RegionalIn(result) > Target(Total(items, min_count, max_count), ind_high)
    /\ \E p \in DOMAIN result : ~result[p].is_india
    /\ \E p \in DOMAIN result : result[p].is_india

\* C6: the returned list is the one select_for_day returns for the input
\* without its later duplicates, and no two returned records share a
\* (title, desc) pair.
C6_Dedup ==
    Returned
        => /\ result = select_for_day(RefDeduped, min_count, max_count, ind_low, ind_high)
           /\ \A p, q \in DOMAIN result :
                  KeyOf(result[p]) = KeyOf(result[q]) => p = q

\* C6 witness: two records of the input share their (title, desc) pair and
\* differ in their source; the returned list holds the earlier one.
C6_Witness ==
    /\ Returned
    /\ \E p, q \in DOMAIN raw :
          /\ p < q /\ KeyOf(raw[p]) = KeyOf(raw[q]) /\ raw[p].src # raw[q].src
          /\ \E n \in DOMAIN result : result[n].src = raw[p].src

\* C8: a record is marked regional exactly if its lower-cased text contains a
\* regional keyword; without a keyword no length makes it regional.
C8_Classification ==
    \A p \in DOMAIN items :
        /\ items[p].is_india <=> RefHasKeyword(items[p])
        /\ items[p].is_india <=> items[p].score >= RegionalScore
        /\ ~RefHasKeyword(items[p]) => items[p].score <= LengthCap

\* C8 witness: among the scored records one without keyword whose length alone
\* would pass the threshold uncapped, and one that is regional by the blank
\* between title and description only.
C8_Witness ==
    /\ \E p \in DOMAIN items :
          /\ ~items[p].is_india
          /\ TextLen(ScoreText(items[p])) >= RegionalScore
    /\ \E p \in DOMAIN items :
          /\ items[p].is_india
          /\ ~ContainsAny(INDIA_KEYWORDS, Lower(items[p].title))
          /\ ~ContainsAny(INDIA_KEYWORDS, Lower(items[p].desc.s))

\* C9: under a valid query the guard of the repair step is false after the
\* greedy fill, the step leaves selected as it is, and selected is no longer
\* than total.
C9_RepairIdle ==
    [][ (pc = "repair" /\ ValidQuery)
            => /\ ~RepairGuard(selected, items, RefLow)
               /\ selected' = selected
               /\ Len(selected') <= RefTotal ]_vars

\* C9 witness: after the repair step under a valid query, selected holds fewer
\* regional records than the low target and a global record it could have
\* replaced.
C9_Witness ==
    /\ pc = "final" /\ ValidQuery
    /\ RegionalIn(selected) < RefLow
    /\ \E p \in DOMAIN selected : ~selected[p].is_india

----------------------------------------------------------------------------
(* Claims about the day pipeline and http_get *)

\* the title, a blank and the description of a record, lower-cased, contain an
\* exclude term
RecordTextExcluded(r) ==
    LET low == Lower(r.title \o <<" ">> \o r.desc.s)
    IN  \E term \in EXCLUDE_OBSERVANCES : Contains(term, low)

\* the description of a record, lower-cased, contains an exclude term
RecordDescExcluded(r) ==
    LET low == Lower(r.desc.s)
    IN  \E term \in EXCLUDE_OBSERVANCES : Contains(term, low)

\* the records of every selection made so far
ChosenRecords ==
    (IF pc = "selected" THEN { result[p] : p \in DOMAIN result } ELSE {})
        \cup UNION { { per_day[d][p] : p \in DOMAIN per_day[d] } : d \in DOMAIN per_day }

\* the <li> of the wanted sections of the page in resp
WantedItems ==
    UNION { { resp.page[n].lis[m] : m \in DOMAIN resp.page[n].lis } :
                n \in { k \in DOMAIN resp.page : SectionWanted(resp.page[k], flags) } }

\* the text of an <li> with blanks collapsed, lower-cased, contains an exclude term
ItemExcluded(li) ==
    LET low == Lower(Normalize(li.text))
    IN  \E term \in EXCLUDE_OBSERVANCES : Contains(term, low)

\* C7 as stated: no record of any day's Selection has a text (title, blank,
\* description) that contains an exclude term.
C7_Original == \A r \in ChosenRecords : ~RecordTextExcluded(r)

\* C7 amended: a list item whose text contains an exclude term yields no
\* record, so every record handed to select_for_day stems from an item free of
\* exclude terms and no record of any day's Selection has a description that
\* contains one.
C7_Exclusion ==
    /\ \A r \in ChosenRecords : ~RecordDescExcluded(r)
    /\ pc \in { "fetched", "select", "sort", "fill", "repair", "final", "selected" }
          => \A p \in DOMAIN raw :
                \E li \in WantedItems :
                    /\ ~ItemExcluded(li)
                    /\ ItemRecords(li, Url(day)) = << raw[p] >>

\* C7 witness: a day's Selection was stored from a page whose wanted sections
\* hold an item with an exclude term under upper-case letters, and holds a
\* record whose title and description join to an exclude term.
C7_Witness ==
    /\ pc = "day" /\ day >= 2
    /\ \E li \in WantedItems :
          ItemExcluded(li) /\ ~ContainsAny(EXCLUDE_OBSERVANCES, li.text)
    /\ \E r \in ChosenRecords : RecordTextExcluded(r)

\* the attempts issued so far that failed
FailedAttempts == { k \in DOMAIN outcomes : outcomes[k] # Ok200 }

\* C10: at most tries attempts; none after the first 200, whose response is
\* returned; None exactly when all tries attempts failed; after the failed
\* attempt number n a sleep of backoff*n, also after the last one.
C10_RetryProtocol ==
    /\ Len(outcomes) <= tries
    /\ \A k \in DOMAIN outcomes : outcomes[k] = Ok200 => k = Len(outcomes)
    /\ \A k \in DOMAIN slept : slept[k] = backoff * k
    /\ Len(slept) = IF pc = "http_sleep" THEN Cardinality(FailedAttempts) - 1
                    ELSE Cardinality(FailedAttempts)
    /\ pc = "http" => Len(outcomes) = i
    /\ pc = "http_returned"
          => /\ resp # NotReturned
             /\ resp = None <=> (Cardinality(FailedAttempts) = tries /\ Len(outcomes) = tries)
             /\ resp # None <=> (outcomes # << >> /\ outcomes[Len(outcomes)] = Ok200)
             /\ resp = None => Len(slept) = tries
    /\ pc # "http_returned" => resp = NotReturned

\* C10 witness: http_get returned None after two or more attempts, of which one
\* got another status and one raised, each followed by its sleep.
C10_Witness ==
    /\ pc = "http_returned" /\ resp = None
    /\ tries >= 2 /\ backoff >= 2
    /\ \E k \in DOMAIN outcomes : outcomes[k] = OtherStatus
    /\ \E k \in DOMAIN outcomes : outcomes[k] = Raised
    /\ Len(slept) = tries

=============================================================================
